---- MODULE Spec2Model ----
(***************************************************************************)
(* Role extraction, permission mapping and access-level aggregation of the *)
(* authentication backend (role_management.py, auth.py, main.py), its      *)
(* session tokens, its calls to the identity provider and its profile      *)
(* store (user_service.py, db_models.py).                                  *)
(*                                                                         *)
(* Four specifications share the module, each moving its own variables and *)
(* leaving the others at their initial values:                             *)
(*   Spec         roles, permissions and access levels                     *)
(*   SpecToken    issuing and verifying session tokens                     *)
(*   SpecIdp      the handlers that call the identity provider             *)
(*   SpecProfile  concurrent requests on the profile store                 *)
(*                                                                         *)
(* Python values are modelled as follows:                                  *)
(*   - a dict is a function whose DOMAIN is the set of keys present;       *)
(*   - a dict iterated with .items() is the sequence of its <<key, value>> *)
(*     pairs in iteration order (keys distinct);                           *)
(*   - a list is a sequence; None is the string "None";                    *)
(*   - a str that is only compared is a TLA+ string; a str that is built   *)
(*     or transformed character by character (a role description) is the   *)
(*     sequence of its characters.                                         *)
(***************************************************************************)
EXTENDS Integers, Sequences, FiniteSets, TLC

VARIABLES pc, username, token_info, current_user, frontend, me_roles, guarded,
          now, issued, verdict, expired_seen, environ,
          keycloak_ready, accounts, calls, response,
          rows, requests, db_now

roleVars == <<pc, username, token_info, current_user, frontend, me_roles, guarded>>
tokenVars == <<now, issued, verdict, expired_seen, environ>>
idpVars == <<keycloak_ready, accounts, calls, response>>
profileVars == <<rows, requests, db_now>>

vars == <<roleVars, tokenVars, idpVars, profileVars>>

None == "None"

\* ---------------------------------------------------------------- bounds

\* Largest number of role names in one introspection payload, summed over
\* the realm section and all client sections.
MaxRoles == 2

\* ------------------------------------------------------- python helpers

Range(s) == {s[i] : i \in 1..Len(s)}

\* d.get(k, default)
DictGet(d, k, default) == IF k \in DOMAIN d THEN d[k] ELSE default

\* [f(x) for x in s]  is written  [i \in 1..Len(s) |-> f(s[i])]  in place.

\* x in list
InList(x, s) == \E i \in 1..Len(s) : s[i] = x

RECURSIVE list_of_set(_)
\* list(a_set): the elements of the set, each once.  Python's iteration
\* order of a set of str is unspecified; one fixed order stands for it, and
\* nothing below depends on which.
list_of_set(S) ==
    IF S = {} THEN <<>>
    ELSE LET x == CHOOSE y \in S : TRUE
         IN  <<x>> \o list_of_set(S \ {x})

\* ------------------------------------------------------------ characters

LowerLetters == <<"a","b","c","d","e","f","g","h","i","j","k","l","m",
                  "n","o","p","q","r","s","t","u","v","w","x","y","z">>
UpperLetters == <<"A","B","C","D","E","F","G","H","I","J","K","L","M",
                  "N","O","P","Q","R","S","T","U","V","W","X","Y","Z">>

IsCased(c) == InList(c, LowerLetters) \/ InList(c, UpperLetters)

IndexIn(c, s) == CHOOSE i \in 1..Len(s) : s[i] = c

\* str.upper() / str.lower() of one character
ToUpper(c) == IF InList(c, LowerLetters) THEN UpperLetters[IndexIn(c, LowerLetters)] ELSE c
ToLower(c) == IF InList(c, UpperLetters) THEN LowerLetters[IndexIn(c, UpperLetters)] ELSE c

\* str.title(): a cased character is upper-cased when it follows an uncased
\* character (or starts the string) and lower-cased otherwise.
title(s) ==
    [i \in 1..Len(s) |->
        IF i = 1 \/ ~IsCased(s[i-1]) THEN ToUpper(s[i]) ELSE ToLower(s[i])]

\* The characters of each role name that occurs in the model.
Spell ==
    ("admin" :> <<"a", "d", "m", "i", "n">>) @@
    ("user" :> <<"u", "s", "e", "r">>) @@
    ("moderator" :> <<"m", "o", "d", "e", "r", "a", "t", "o", "r">>) @@
    ("dashboard-admin" :> <<"d", "a", "s", "h", "b", "o", "a", "r", "d", "-", "a", "d", "m", "i", "n">>) @@
    ("api-consumer" :> <<"a", "p", "i", "-", "c", "o", "n", "s", "u", "m", "e", "r">>) @@
    ("developer" :> <<"d", "e", "v", "e", "l", "o", "p", "e", "r">>) @@
    ("default-roles-master" :> <<"d", "e", "f", "a", "u", "l", "t", "-", "r", "o", "l", "e", "s", "-", "m", "a", "s", "t", "e", "r">>) @@
    ("default-roles-astro" :> <<"d", "e", "f", "a", "u", "l", "t", "-", "r", "o", "l", "e", "s", "-", "a", "s", "t", "r", "o">>) @@
    ("offline_access" :> <<"o", "f", "f", "l", "i", "n", "e", "_", "a", "c", "c", "e", "s", "s">>) @@
    ("uma_authorization" :> <<"u", "m", "a", "_", "a", "u", "t", "h", "o", "r", "i", "z", "a", "t", "i", "o", "n">>) @@
    ("uma_protection" :> <<"u", "m", "a", "_", "p", "r", "o", "t", "e", "c", "t", "i", "o", "n">>)

RoleNames == DOMAIN Spell

\* ------------------------------------------------------ role_management

REALM == "realm"
CLIENT == "client"
RoleType == {REALM, CLIENT}

UserRole(name, type, client_id, permissions, description) ==
    [name |-> name, type |-> type, client_id |-> client_id,
     permissions |-> permissions, description |-> description]

ROLE_PERMISSIONS ==
    (<<"user", REALM>> :>
        <<"profile:read", "profile:update", "preferences:read", "preferences:update">>) @@
    (<<"admin", REALM>> :>
        <<"profile:read", "profile:update", "preferences:read", "preferences:update",
          "users:read", "users:manage", "system:admin">>) @@
    (<<"moderator", REALM>> :>
        <<"profile:read", "profile:update", "preferences:read", "preferences:update",
          "content:moderate", "users:read">>) @@
    (<<"dashboard-user", CLIENT>> :> <<"dashboard:read", "analytics:view">>) @@
    (<<"dashboard-admin", CLIENT>> :>
        <<"dashboard:read", "dashboard:manage", "analytics:view", "analytics:export">>) @@
    (<<"api-consumer", CLIENT>> :> <<"api:read", "api:write">>)

get_role_permissions(role_name, role_type, client_id) ==
    DictGet(ROLE_PERMISSIONS, <<role_name, role_type>>, <<>>)

ROLE_DESCRIPTIONS ==
    (<<"user", REALM>> :> <<"S", "t", "a", "n", "d", "a", "r", "d", " ", "u", "s", "e", "r", " ", "w", "i", "t", "h", " ", "b", "a", "s", "i", "c", " ", "a", "c", "c", "e", "s", "s">>) @@
    (<<"admin", REALM>> :> <<"S", "y", "s", "t", "e", "m", " ", "a", "d", "m", "i", "n", "i", "s", "t", "r", "a", "t", "o", "r", " ", "w", "i", "t", "h", " ", "f", "u", "l", "l", " ", "a", "c", "c", "e", "s", "s">>) @@
    (<<"moderator", REALM>> :> <<"C", "o", "n", "t", "e", "n", "t", " ", "m", "o", "d", "e", "r", "a", "t", "o", "r", " ", "w", "i", "t", "h", " ", "l", "i", "m", "i", "t", "e", "d", " ", "a", "d", "m", "i", "n", " ", "a", "c", "c", "e", "s", "s">>) @@
    (<<"dashboard-user", CLIENT>> :> <<"D", "a", "s", "h", "b", "o", "a", "r", "d", " ", "u", "s", "e", "r", " ", "w", "i", "t", "h", " ", "r", "e", "a", "d", " ", "a", "c", "c", "e", "s", "s">>) @@
    (<<"dashboard-admin", CLIENT>> :> <<"D", "a", "s", "h", "b", "o", "a", "r", "d", " ", "a", "d", "m", "i", "n", "i", "s", "t", "r", "a", "t", "o", "r">>) @@
    (<<"api-consumer", CLIENT>> :> <<"A", "P", "I", " ", "a", "c", "c", "e", "s", "s", " ", "f", "o", "r", " ", "e", "x", "t", "e", "r", "n", "a", "l", " ", "i", "n", "t", "e", "g", "r", "a", "t", "i", "o", "n", "s">>)

\* a lookup that matches on the role name alone, whatever the scope
get_role_description_any_type(role_name, role_type) ==
    IF \E k \in DOMAIN ROLE_DESCRIPTIONS : k[1] = role_name
    THEN ROLE_DESCRIPTIONS[CHOOSE k \in DOMAIN ROLE_DESCRIPTIONS : k[1] = role_name]
    ELSE title(Spell[role_name]) \o <<" ", "r", "o", "l", "e">>

get_role_description(role_name, role_type) ==
    DictGet(ROLE_DESCRIPTIONS, <<role_name, role_type>>,
            title(Spell[role_name]) \o <<" ", "r", "o", "l", "e">>)

\* role names skipped in the realm section and in the client sections
REALM_SKIP == <<"default-roles-master", "offline_access", "uma_authorization">>
CLIENT_SKIP == <<"uma_protection">>

\* token_info["realm_access"].get("roles", []) when the section is present
realm_roles_of(ti) ==
    IF "realm_access" \in DOMAIN ti
    THEN DictGet(ti["realm_access"], "roles", <<>>)
    ELSE <<>>

\* token_info["resource_access"].items() when the section is present
resource_items_of(ti) ==
    IF "resource_access" \in DOMAIN ti THEN ti["resource_access"] ELSE <<>>

extract_realm_roles(ti) ==
    LET kept == SelectSeq(realm_roles_of(ti), LAMBDA role_name : ~InList(role_name, REALM_SKIP))
    IN  [i \in 1..Len(kept) |->
            UserRole(kept[i], REALM, None,
                     get_role_permissions(kept[i], REALM, None),
                     get_role_description(kept[i], REALM))]

RECURSIVE extract_client_roles(_)
extract_client_roles(items) ==
    IF items = <<>> THEN <<>>
    ELSE LET client_id == items[1][1]
             client_roles == DictGet(items[1][2], "roles", <<>>)
             kept == SelectSeq(client_roles, LAMBDA role_name : ~InList(role_name, CLIENT_SKIP))
         IN  [i \in 1..Len(kept) |->
                 UserRole(kept[i], CLIENT, client_id,
                          get_role_permissions(kept[i], CLIENT, client_id),
                          get_role_description(kept[i], CLIENT))]
             \o extract_client_roles(Tail(items))

\* an extraction that walks the client sections before the realm section
extract_detailed_roles_clients_first(ti) ==
    extract_client_roles(resource_items_of(ti)) \o extract_realm_roles(ti)

extract_detailed_roles(ti) ==
    extract_realm_roles(ti) \o extract_client_roles(resource_items_of(ti))

calculate_access_levels(roles) ==
    LET any(P(_)) == \E i \in 1..Len(roles) : P(roles[i])
        has(perm) == any(LAMBDA role : InList(perm, role.permissions))
    IN  [can_view_admin     |-> has("system:admin"),
         can_manage_users   |-> has("users:manage"),
         can_moderate       |-> has("content:moderate"),
         can_view_analytics |-> has("analytics:view"),
         can_export_data    |-> has("analytics:export"),
         can_access_api     |-> any(LAMBDA role : InList("api:read", role.permissions)
                                                  \/ InList("api:write", role.permissions)),
         is_admin           |-> any(LAMBDA role : role.name = "admin" /\ role.type = REALM),
         is_moderator       |-> any(LAMBDA role : role.name = "moderator")]

RECURSIVE concat_permissions(_)
concat_permissions(roles) ==
    IF roles = <<>> THEN <<>>
    ELSE roles[1].permissions \o concat_permissions(Tail(roles))

\* an aggregation that collects the permissions in a list, not a set
calculate_user_permissions_concat(roles) ==
    [roles         |-> roles,
     permissions   |-> concat_permissions(roles),
     access_levels |-> calculate_access_levels(roles)]

calculate_user_permissions(roles) ==
    LET all_permissions == UNION {Range(roles[i].permissions) : i \in 1..Len(roles)}
    IN  [roles         |-> roles,
         permissions   |-> list_of_set(all_permissions),
         access_levels |-> calculate_access_levels(roles)]

get_roles_for_frontend(ti) ==
    LET detailed_roles == extract_detailed_roles(ti)
        user_permissions == calculate_user_permissions(detailed_roles)
    IN  [roles         |-> detailed_roles,
         permissions   |-> user_permissions.permissions,
         access_levels |-> user_permissions.access_levels,
         simple_roles  |-> [i \in 1..Len(detailed_roles) |-> detailed_roles[i].name]]

\* the permissions one role name adds: the realm entry if it is non-empty,
\* else the client entry
permissions_of_name(role_name) ==
    LET role_permissions == get_role_permissions(role_name, REALM, None)
    IN  IF role_permissions # <<>>
        THEN Range(role_permissions)
        ELSE Range(get_role_permissions(role_name, CLIENT, None))

get_user_permissions_from_roles(role_names) ==
    list_of_set(UNION {permissions_of_name(role_names[i]) : i \in 1..Len(role_names)})

\* ----------------------------------------------------------------- auth

DEV_USERNAME == "37099475"

RECURSIVE flatten_client_roles(_)
flatten_client_roles(items) ==
    IF items = <<>> THEN <<>>
    ELSE SelectSeq(DictGet(items[1][2], "roles", <<>>),
                   LAMBDA role : ~InList(role, CLIENT_SKIP))
         \o flatten_client_roles(Tail(items))

\* the role list authenticate_user builds from the introspection payload
authenticate_user_roles(uname, ti) ==
    LET filtered_realm_roles ==
            SelectSeq(realm_roles_of(ti), LAMBDA role : ~InList(role, REALM_SKIP))
        roles == filtered_realm_roles \o flatten_client_roles(resource_items_of(ti))
    IN  IF uname = DEV_USERNAME /\ ~InList("user", roles)
        THEN Append(roles, "user")
        ELSE roles

\* ----------------------------------------------------------------- main

me_access_levels(user_roles) ==
    LET any_in(names) == \E i \in 1..Len(user_roles) : InList(user_roles[i], names)
    IN  [can_view_admin     |-> InList("admin", user_roles),
         can_manage_users   |-> InList("admin", user_roles),
         can_moderate       |-> InList("moderator", user_roles) \/ InList("admin", user_roles),
         can_view_analytics |-> any_in(<<"admin", "analyst", "dashboard-admin">>),
         can_export_data    |-> any_in(<<"admin", "dashboard-admin">>),
         can_access_api     |-> any_in(<<"admin", "api-consumer", "developer">>),
         is_admin           |-> InList("admin", user_roles),
         is_moderator       |-> InList("moderator", user_roles),
         is_standard_user   |-> InList("user", user_roles)]

\* the access_levels of the handler's exception fallback; the branch is
\* taken only when the try block raises, which no step of it does on a
\* validated UserInfo, so no action below takes it
me_fallback_access_levels(user_roles) ==
    [is_admin         |-> InList("admin", user_roles),
     is_standard_user |-> InList("user", user_roles)]

get_user_roles_detailed(user) ==
    LET user_roles == user.roles
    IN  [username      |-> user.username,
         roles         |-> user_roles,
         permissions   |-> get_user_permissions_from_roles(user_roles),
         access_levels |-> me_access_levels(user_roles),
         role_details  |-> [i \in 1..Len(user_roles) |->
                               [name |-> user_roles[i],
                                type |-> "realm",
                                description |-> title(Spell[user_roles[i]])
                                                \o <<" ", "r", "o", "l", "e">>]]]

\* ------------------------------------------------------------- payloads

ClientIds == {"dashboard-app", "account"}
Usernames == {"alice", DEV_USERNAME}

\* a section dict carrying n role names; the "roles" key may be missing
\* when it would be empty
RolesDicts(n) ==
    (IF n = 0 THEN {<<>>} ELSE {}) \cup {[roles |-> s] : s \in [1..n -> RoleNames]}

\* resource_access dicts (as item sequences) carrying n role names in all
ResourceAccess(n) ==
    (IF n = 0 THEN {<<>>} ELSE {})
    \cup {<< <<c, d>> >> : c \in ClientIds, d \in RolesDicts(n)}
    \cup UNION {{<< <<c[1], d1>>, <<c[2], d2>> >> :
                   c \in {cc \in ClientIds \X ClientIds : cc[1] # cc[2]},
                   d1 \in RolesDicts(k), d2 \in RolesDicts(n - k)} : k \in 0..n}

\* the realm part of an introspection payload carrying a realm role names
RealmSections(a) ==
    (IF a = 0 THEN {<<>>} ELSE {})
    \cup {[realm_access |-> d] : d \in RolesDicts(a)}

\* the client part of an introspection payload carrying b client role names
ResourceSections(b) ==
    (IF b = 0 THEN {<<>>} ELSE {})
    \cup {[resource_access |-> r] : r \in ResourceAccess(b)}

\* <<realm role names, client role names>> of a payload
Splits == {x \in (0..MaxRoles) \X (0..MaxRoles) : x[1] + x[2] <= MaxRoles}

\* -------------------------------------------------------- state machine

\* no login yet
RoleInit ==
    /\ pc = "idle"
    /\ username = None
    /\ token_info = <<>>
    /\ current_user = <<>>
    /\ frontend = <<>>
    /\ me_roles = <<>>
    /\ guarded = <<>>

\* no token issued yet; the environment does not set the token lifetime
TokenInit ==
    /\ environ = <<>>
    /\ now = 0
    /\ issued = <<>>
    /\ verdict = <<>>
    /\ expired_seen = FALSE

\* the first account of the identity provider
FirstAccounts ==
    [a \in {"id-alice"} |->
        [username |-> "alice", password |-> "pw1", email |-> "alice@example.com",
         first_name |-> "Alice", last_name |-> None, roles |-> <<"user">>]]

\* the Keycloak clients were built at import and no request was served
IdpInit ==
    /\ keycloak_ready = TRUE
    /\ accounts = FirstAccounts
    /\ calls = <<>>
    /\ response = <<>>

\* an empty users table and no request under way
ProfileInit ==
    /\ rows = <<>>
    /\ requests = <<>>
    /\ db_now = 1

Init ==
    /\ RoleInit
    /\ TokenInit
    /\ IdpInit
    /\ ProfileInit

\* POST /auth/login: the identity provider accepts the credentials and
\* returns the introspection payload ti; the session carries the role
\* names authenticate_user flattened from it.
login ==
    /\ pc = "idle"
    /\ \E uname \in Usernames, split \in Splits :
          \E resource \in ResourceSections(split[2]) :
             \E realm \in RealmSections(split[1]) :
                LET ti == realm @@ resource
                IN  /\ username' = uname
                    /\ token_info' = ti
                    /\ current_user' = [username |-> uname,
                                        roles |-> authenticate_user_roles(uname, ti)]
    /\ pc' = "authenticated"
    /\ UNCHANGED <<frontend, me_roles, guarded>>
    /\ UNCHANGED <<tokenVars, idpVars, profileVars>>

\* get_roles_for_frontend on the introspection payload of the session
roles_for_frontend ==
    /\ pc = "authenticated"
    /\ frontend = <<>>
    /\ frontend' = get_roles_for_frontend(token_info)
    /\ UNCHANGED <<pc, username, token_info, current_user, me_roles, guarded>>
    /\ UNCHANGED <<tokenVars, idpVars, profileVars>>

\* GET /auth/me/roles
me_roles_request ==
    /\ pc = "authenticated"
    /\ me_roles = <<>>
    /\ me_roles' = get_user_roles_detailed(current_user)
    /\ UNCHANGED <<pc, username, token_info, current_user, frontend, guarded>>
    /\ UNCHANGED <<tokenVars, idpVars, profileVars>>

Next ==
    \/ login
    \/ roles_for_frontend
    \/ me_roles_request

Spec == Init /\ [][Next]_vars

\* require_role(role_name, role_type)(func) called with current_user: 401
\* without a user, 403 when role_name is not among the user's role names,
\* else the wrapped handler runs; role_type is not looked at
require_role(role_name, role_type, user) ==
    IF user = <<>>
    THEN [raise |-> [status_code |-> 401, detail |-> "Authentication required"]]
    ELSE IF ~InList(role_name, user.roles)
    THEN [raise |-> [status_code |-> 403, detail |-> "Role required: " \o role_name]]
    ELSE [invoked |-> "func"]

\* a request to the handler of the usage example, decorated with
\* @require_role("admin", RoleType.REALM), before or after a login
delete_user ==
    /\ guarded = <<>>
    /\ guarded' = [caller |-> current_user,
                    answer |-> require_role("admin", REALM, current_user)]
    /\ UNCHANGED <<pc, username, token_info, current_user, frontend, me_roles>>
    /\ UNCHANGED <<tokenVars, idpVars, profileVars>>

NextGuard ==
    \/ login
    \/ delete_user

SpecGuard == Init /\ [][NextGuard]_vars

\* ------------------------------------------------------- session tokens
\*
\* Instants and durations are whole seconds (the exp claim and the clock of
\* the verifier are both whole seconds).  An Optional[timedelta] is <<>> for
\* None and <<d>> for timedelta(seconds=d).  A token is the empty function
\* when it is not a well-formed JWT, else its claims and its signature.

JWT_SECRET_KEY == "your-secret-key-change-this-in-production"

\* int(os.getenv(name, default)): environ is <<>> when the variable is not
\* set and <<m>> when it is set to m
getenv_int(default) == IF environ = <<>> THEN default ELSE environ[1]

JWT_ACCESS_TOKEN_EXPIRE_MINUTES == getenv_int(30)

\* a duration of this many minutes, in seconds
timedelta_minutes(m) == 60 * m

\* the HMAC of the claims under a key: equal exactly for equal key and claims
HS256(key, claims) == [key |-> key, signed |-> claims]

\* jwt.encode
jwt_encode(claims, key) == [claims |-> claims, signature |-> HS256(key, claims)]

\* jwt.decode(token, key, algorithms=[JWT_ALGORITHM]) at instant utcnow: the
\* signature is checked first, then exp if the claim is there
jwt_decode(token, key, utcnow) ==
    IF "claims" \notin DOMAIN token
    THEN [error |-> "JWTError"]
    ELSE IF token.signature # HS256(key, token.claims)
    THEN [error |-> "JWTError"]
    ELSE IF "exp" \in DOMAIN token.claims /\ token.claims.exp < utcnow
    THEN [error |-> "ExpiredSignatureError"]
    ELSE [claims |-> token.claims]

\* bool(expires_delta): None and timedelta(0) are false
Truthy(expires_delta) == expires_delta # <<>> /\ expires_delta[1] # 0

create_access_token(data, expires_delta, utcnow) ==
    LET expire == IF Truthy(expires_delta)
                  THEN utcnow + expires_delta[1]
                  ELSE utcnow + timedelta_minutes(JWT_ACCESS_TOKEN_EXPIRE_MINUTES)
    IN  jwt_encode([exp |-> expire] @@ data, JWT_SECRET_KEY)

UserInfo(uname, email, first_name, last_name, roles, user_id) ==
    [username |-> uname, email |-> email, first_name |-> first_name,
     last_name |-> last_name, roles |-> roles, user_id |-> user_id]

\* the claims login puts in the token
token_data(user_info) ==
    [sub        |-> user_info.username,
     username   |-> user_info.username,
     email      |-> user_info.email,
     first_name |-> user_info.first_name,
     last_name  |-> user_info.last_name,
     roles      |-> user_info.roles,
     user_id    |-> user_info.user_id]

credentials_exception ==
    [status_code |-> 401, detail |-> "Could not validate credentials"]

\* a verifier that tells the client which check failed
get_current_user_telling(token, utcnow) ==
    LET decoded == jwt_decode(token, JWT_SECRET_KEY, utcnow)
    IN  IF "error" \in DOMAIN decoded
        THEN [status_code |-> 401, detail |-> decoded.error]
        ELSE IF DictGet(decoded.claims, "sub", None) = None
        THEN credentials_exception
        ELSE [user_info |->
                UserInfo(DictGet(decoded.claims, "username", ""),
                         DictGet(decoded.claims, "email", None),
                         DictGet(decoded.claims, "first_name", None),
                         DictGet(decoded.claims, "last_name", None),
                         DictGet(decoded.claims, "roles", <<>>),
                         DictGet(decoded.claims, "user_id", ""))]

\* a verifier that takes the user id from the subject claim
get_current_user_id_from_sub(token, utcnow) ==
    LET decoded == jwt_decode(token, JWT_SECRET_KEY, utcnow)
    IN  IF "error" \in DOMAIN decoded
        THEN credentials_exception
        ELSE IF DictGet(decoded.claims, "sub", None) = None
        THEN credentials_exception
        ELSE [user_info |->
                UserInfo(DictGet(decoded.claims, "username", ""),
                         DictGet(decoded.claims, "email", None),
                         DictGet(decoded.claims, "first_name", None),
                         DictGet(decoded.claims, "last_name", None),
                         DictGet(decoded.claims, "roles", <<>>),
                         DictGet(decoded.claims, "sub", ""))]

\* get_current_user at instant utcnow: the 401 response or the UserInfo
get_current_user(token, utcnow) ==
    LET decoded == jwt_decode(token, JWT_SECRET_KEY, utcnow)
    IN  IF "error" \in DOMAIN decoded
        THEN credentials_exception
        ELSE IF DictGet(decoded.claims, "sub", None) = None
        THEN credentials_exception
        ELSE [user_info |->
                UserInfo(DictGet(decoded.claims, "username", ""),
                         DictGet(decoded.claims, "email", None),
                         DictGet(decoded.claims, "first_name", None),
                         DictGet(decoded.claims, "last_name", None),
                         DictGet(decoded.claims, "roles", <<>>),
                         DictGet(decoded.claims, "user_id", ""))]

\* ---- inputs of the token specification

\* how far past an instant of interest the clock is followed
MaxDrift == 2

\* the instants the clock takes: around the start, a minute later and the
\* default lifetime later
Instants ==
    {base + k : base \in {0, 60, timedelta_minutes(JWT_ACCESS_TOKEN_EXPIRE_MINUTES)},
                k \in 0..MaxDrift}

\* the durations passed to create_access_token
Deltas == {<<>>, <<-1>>, <<0>>, <<1>>, <<60>>}

\* the identities the identity provider returns at login
UserInfos ==
    {UserInfo("alice", "alice@example.com", "Alice", "Liddell", <<"user">>, "id-alice"),
     UserInfo("bob", None, None, None, <<>>, "id-bob"),
     UserInfo("carol", "carol@example.com", None, "Jones", <<"admin", "user">>, "id-carol")}

\* x without the key k
Without(x, k) == [j \in DOMAIN x \ {k} |-> x[j]]

\* the bearer tokens a client may present once t was issued
Presented(t) ==
    {t,
     <<>>,
     [t EXCEPT !.signature = [key |-> "corrupted", signed |-> t.claims]],
     [t EXCEPT !.claims = [t.claims EXCEPT !.exp = t.claims.exp + 3600]],
     jwt_encode(t.claims, "another-key"),
     jwt_encode(Without(t.claims, "exp"), JWT_SECRET_KEY),
     jwt_encode(Without(t.claims, "sub"), JWT_SECRET_KEY)}

\* ---- actions of the token specification

\* POST /auth/login succeeds for user_info: the token is issued without a
\* duration
issue_at_login ==
    /\ \E user_info \in UserInfos :
          issued' = [token |-> create_access_token(token_data(user_info), <<>>, now),
                     user_info |-> user_info, delta |-> <<>>, at |-> now, by |-> "login"]
    /\ verdict' = <<>>
    /\ expired_seen' = FALSE
    /\ UNCHANGED <<now, environ>>
    /\ UNCHANGED <<roleVars, idpVars, profileVars>>

\* create_access_token called with a duration
issue_with_delta ==
    /\ \E user_info \in UserInfos, expires_delta \in Deltas \ {<<>>} :
          issued' = [token |-> create_access_token(token_data(user_info), expires_delta, now),
                     user_info |-> user_info, delta |-> expires_delta, at |-> now,
                     by |-> "create_access_token"]
    /\ verdict' = <<>>
    /\ expired_seen' = FALSE
    /\ UNCHANGED <<now, environ>>
    /\ UNCHANGED <<roleVars, idpVars, profileVars>>

\* time passes
tick ==
    /\ \E t \in Instants : t > now /\ now' = t
    /\ UNCHANGED <<issued, verdict, expired_seen, environ>>
    /\ UNCHANGED <<roleVars, idpVars, profileVars>>

\* an authenticated request: get_current_user on a presented bearer token
verify ==
    /\ "token" \in DOMAIN issued
    /\ \E t \in Presented(issued.token) :
          /\ verdict' = [token |-> t, at |-> now, result |-> get_current_user(t, now)]
          /\ expired_seen' =
                (expired_seen \/
                   (t = issued.token
                    /\ "error" \in DOMAIN jwt_decode(t, JWT_SECRET_KEY, now)
                    /\ jwt_decode(t, JWT_SECRET_KEY, now).error = "ExpiredSignatureError"))
    /\ UNCHANGED <<now, issued, environ>>
    /\ UNCHANGED <<roleVars, idpVars, profileVars>>

NextToken ==
    \/ issue_at_login
    \/ issue_with_delta
    \/ tick
    \/ verify

SpecToken == Init /\ [][NextToken]_vars

\* the values JWT_ACCESS_TOKEN_EXPIRE_MINUTES is deployed with: not set, a
\* minute, an hour
ExpireMinutesEnv == {<<>>, <<1>>, <<60>>}

\* the process starts under any of these environments
InitEnv ==
    /\ RoleInit
    /\ IdpInit
    /\ ProfileInit
    /\ environ \in ExpireMinutesEnv
    /\ now = 0
    /\ issued = <<>>
    /\ verdict = <<>>
    /\ expired_seen = FALSE

SpecTokenEnv == InitEnv /\ [][NextToken]_vars

\* ------------------------------------------------------ identity provider

\* an exception of the python-keycloak client: its class, the HTTP status of
\* the answer ("None" when there was no answer) and the error it carries
KeycloakError(type, response_code, error_message) ==
    [type |-> type, response_code |-> response_code, error_message |-> error_message]

\* str(e) of a client exception
str(e) == e.response_code \o ": " \o e.error_message

HTTPException(status_code, detail) == [status_code |-> status_code, detail |-> detail]

\* what can go wrong with one call whatever its arguments are: no connection,
\* an HTTP 401 answer, an HTTP 400 answer with the error unauthorized_client
Faults == {"none", "unreachable", "unauthorized", "unauthorized_client"}

\* the client raises KeycloakAuthenticationError for every HTTP 401 answer
\* and the error class of the call for the other failures
fault_error(fault) ==
    CASE fault = "unreachable" ->
            KeycloakError("KeycloakConnectionError", None, "Can't connect to server")
      [] fault = "unauthorized" ->
            KeycloakError("KeycloakAuthenticationError", "401", "invalid_token")
      [] fault = "unauthorized_client" ->
            KeycloakError("KeycloakPostError", "400", "unauthorized_client")

Raised(r) == "raise" \in DOMAIN r

\* one entry of the log of calls made to the identity provider
Call(op, args, r) ==
    [op |-> op, args |-> args, raised |-> IF Raised(r) THEN r.raise.type ELSE None]

\* the realm roles defined at the identity provider
RealmRoles == {"user", "admin"}

user_id_of(uname) == "id-" \o uname

\* keycloak_openid.token: the password grant; HTTP 401 invalid_grant when no
\* account has this username and password
keycloak_openid_token(accts, uname, password, fault) ==
    IF fault # "none" THEN [raise |-> fault_error(fault)]
    ELSE IF \E id \in DOMAIN accts :
                accts[id].username = uname /\ accts[id].password = password
    THEN [ok |-> [access_token |->
            CHOOSE id \in DOMAIN accts :
                accts[id].username = uname /\ accts[id].password = password]]
    ELSE [raise |-> KeycloakError("KeycloakAuthenticationError", "401", "invalid_grant")]

\* keycloak_openid.userinfo: the claims of the account the access token is for
keycloak_openid_userinfo(accts, access_token, fault) ==
    IF fault # "none" THEN [raise |-> fault_error(fault)]
    ELSE [ok |-> [sub |-> access_token,
                  preferred_username |-> accts[access_token].username,
                  email |-> accts[access_token].email,
                  given_name |-> accts[access_token].first_name,
                  family_name |-> accts[access_token].last_name]]

\* keycloak_openid.introspect: the token's realm roles
keycloak_openid_introspect(accts, access_token, fault) ==
    IF fault # "none" THEN [raise |-> fault_error(fault)]
    ELSE [ok |-> [active |-> TRUE,
                  realm_access |-> [roles |-> accts[access_token].roles]]]

\* "unauthorized_client" in str(e)
mentions_unauthorized_client(e) == e.error_message = "unauthorized_client"

\* the except clauses of authenticate_user, in their order
authenticate_user_except(e) ==
    IF e.type = "KeycloakAuthenticationError"
    THEN HTTPException(401, "Invalid credentials")
    ELSE IF mentions_unauthorized_client(e)
    THEN HTTPException(500, "Keycloak client configuration error. Please check KEYCLOAK_SETUP.md for configuration instructions.")
    ELSE HTTPException(500, "Authentication service error")

\* authenticate_user: the three calls in one try block; f gives the fault
\* of each call
authenticate_user(uname, password, f, accts, ready) ==
    IF ~ready
    THEN [raise |-> HTTPException(500, "Keycloak client not initialized"), calls |-> <<>>]
    ELSE
    LET token == keycloak_openid_token(accts, uname, password, f[1])
        c1 == <<Call("token", <<uname, password>>, token)>>
    IN  IF Raised(token)
        THEN [raise |-> authenticate_user_except(token.raise), calls |-> c1]
        ELSE
        LET access_token == token.ok.access_token
            userinfo == keycloak_openid_userinfo(accts, access_token, f[2])
            c2 == Append(c1, Call("userinfo", <<access_token>>, userinfo))
        IN  IF Raised(userinfo)
            THEN [raise |-> authenticate_user_except(userinfo.raise), calls |-> c2]
            ELSE
            LET introspected == keycloak_openid_introspect(accts, access_token, f[3])
                c3 == Append(c2, Call("introspect", <<access_token>>, introspected))
            IN  IF Raised(introspected)
                THEN [raise |-> authenticate_user_except(introspected.raise), calls |-> c3]
                ELSE [ok |-> UserInfo(DictGet(userinfo.ok, "preferred_username", uname),
                                      DictGet(userinfo.ok, "email", None),
                                      DictGet(userinfo.ok, "given_name", None),
                                      DictGet(userinfo.ok, "family_name", None),
                                      authenticate_user_roles(uname, introspected.ok),
                                      DictGet(userinfo.ok, "sub", None)),
                      calls |-> c3]

\* Token(access_token, token_type, expires_in)
Token(access_token) ==
    [access_token |-> access_token, token_type |-> "bearer", expires_in |-> 1800]

\* main.login: the answer to POST /auth/login; an HTTPException of
\* authenticate_user is raised again as it is
auth_login(uname, password, f, accts, ready, utcnow) ==
    LET r == authenticate_user(uname, password, f, accts, ready)
    IN  IF Raised(r)
        THEN [status_code |-> r.raise.status_code,
              body |-> [detail |-> r.raise.detail], calls |-> r.calls]
        ELSE [status_code |-> 200,
              body |-> Token(create_access_token(token_data(r.ok), <<>>, utcnow)),
              calls |-> r.calls]

\* the account keycloak_admin.create_user stores; no realm role yet
new_account(user_data) ==
    [username |-> user_data.username, password |-> user_data.password,
     email |-> user_data.email, first_name |-> user_data.first_name,
     last_name |-> user_data.last_name, roles |-> <<>>]

\* keycloak_admin.create_user: HTTP 409 when the username is taken
keycloak_admin_create_user(accts, user_data, fault) ==
    IF fault # "none" THEN [raise |-> fault_error(fault)]
    ELSE IF \E id \in DOMAIN accts : accts[id].username = user_data.username
    THEN [raise |-> KeycloakError("KeycloakPostError", "409", "User exists with same username")]
    ELSE [ok |-> user_id_of(user_data.username)]

\* keycloak_admin.get_realm_role: HTTP 404 when the realm has no such role
keycloak_admin_get_realm_role(role_name, fault) ==
    IF fault # "none" THEN [raise |-> fault_error(fault)]
    ELSE IF role_name \notin RealmRoles
    THEN [raise |-> KeycloakError("KeycloakGetError", "404", "Could not find role")]
    ELSE [ok |-> [name |-> role_name]]

\* keycloak_admin.assign_realm_roles
keycloak_admin_assign_realm_roles(fault) ==
    IF fault # "none" THEN [raise |-> fault_error(fault)] ELSE [ok |-> None]

\* keycloak_admin.send_verify_email: HTTP 400 when the account has no email
keycloak_admin_send_verify_email(accts, user_id, fault) ==
    IF fault # "none" THEN [raise |-> fault_error(fault)]
    ELSE IF accts[user_id].email = None
    THEN [raise |-> KeycloakError("KeycloakPutError", "400", "User email missing")]
    ELSE [ok |-> None]

\* the handler of the whole try block of create_user_in_keycloak
create_user_except(e) == HTTPException(500, "Error creating user: " \o str(e))

\* as create_user_in_keycloak, without the inner try around the email
create_user_in_keycloak_email_required(user_data, f, accts, ready) ==
    IF ~ready
    THEN [raise |-> HTTPException(500, "Keycloak admin client not initialized"),
          calls |-> <<>>, accounts |-> accts]
    ELSE
    LET created == keycloak_admin_create_user(accts, user_data, f[1])
        c1 == <<Call("create_user", <<user_data.username>>, created)>>
    IN  IF Raised(created)
        THEN [raise |-> create_user_except(created.raise), calls |-> c1, accounts |-> accts]
        ELSE
        LET user_id == created.ok
            a1 == (user_id :> new_account(user_data)) @@ accts
            role == keycloak_admin_get_realm_role(user_data.role, f[2])
            c2 == Append(c1, Call("get_realm_role", <<user_data.role>>, role))
            assigned == keycloak_admin_assign_realm_roles(f[3])
            c3 == Append(c2, Call("assign_realm_roles", <<user_id, user_data.role>>, assigned))
            a3 == [a1 EXCEPT ![user_id].roles = <<user_data.role>>]
            sent == keycloak_admin_send_verify_email(a3, user_id, f[4])
            c4 == Append(c3, Call("send_verify_email", <<user_id>>, sent))
        IN  IF Raised(role)
            THEN [raise |-> create_user_except(role.raise), calls |-> c2, accounts |-> a1]
            ELSE IF Raised(assigned)
            THEN [raise |-> create_user_except(assigned.raise), calls |-> c3, accounts |-> a1]
            ELSE IF Raised(sent)
            THEN [raise |-> create_user_except(sent.raise), calls |-> c4, accounts |-> a3]
            ELSE [ok |-> user_id, calls |-> c4, accounts |-> a3]

\* create_user_in_keycloak: create the account, look the role up, assign it,
\* send the verification email; an account created before a later call fails
\* stays at the identity provider
create_user_in_keycloak(user_data, f, accts, ready) ==
    IF ~ready
    THEN [raise |-> HTTPException(500, "Keycloak admin client not initialized"),
          calls |-> <<>>, accounts |-> accts]
    ELSE
    LET created == keycloak_admin_create_user(accts, user_data, f[1])
        c1 == <<Call("create_user", <<user_data.username>>, created)>>
    IN  IF Raised(created)
        THEN [raise |-> create_user_except(created.raise), calls |-> c1, accounts |-> accts]
        ELSE
        LET user_id == created.ok
            a1 == (user_id :> new_account(user_data)) @@ accts
            role == keycloak_admin_get_realm_role(user_data.role, f[2])
            c2 == Append(c1, Call("get_realm_role", <<user_data.role>>, role))
            assigned == keycloak_admin_assign_realm_roles(f[3])
            c3 == Append(c2, Call("assign_realm_roles", <<user_id, user_data.role>>, assigned))
            a3 == [a1 EXCEPT ![user_id].roles = <<user_data.role>>]
            sent == keycloak_admin_send_verify_email(a3, user_id, f[4])
            c4 == Append(c3, Call("send_verify_email", <<user_id>>, sent))
        IN  IF Raised(role)
            THEN [raise |-> create_user_except(role.raise), calls |-> c2, accounts |-> a1]
            ELSE IF Raised(assigned)
            THEN [raise |-> create_user_except(assigned.raise), calls |-> c3, accounts |-> a1]
            ELSE [ok |-> user_id, calls |-> c4, accounts |-> a3]

\* main.register: the answer to POST /auth/register
register(user, f, accts, ready) ==
    LET r == create_user_in_keycloak(user, f, accts, ready)
    IN  IF Raised(r)
        THEN [status_code |-> r.raise.status_code, body |-> [detail |-> r.raise.detail],
              calls |-> r.calls, accounts |-> r.accounts]
        ELSE [status_code |-> 200,
              body |-> [user_id |-> r.ok, message |-> "User registered successfully"],
              calls |-> r.calls, accounts |-> r.accounts]

\* keycloak_admin.get_users({"email": email}): the ids of the accounts found
keycloak_admin_get_users(accts, email, fault) ==
    IF fault # "none" THEN [raise |-> fault_error(fault)]
    ELSE [ok |-> {id \in DOMAIN accts : accts[id].email = email}]

\* keycloak_admin.send_update_account
keycloak_admin_send_update_account(fault) ==
    IF fault # "none" THEN [raise |-> fault_error(fault)] ELSE [ok |-> None]

\* send_password_reset_email: True whatever happens once the admin client
\* exists
send_password_reset_email(email, f, accts, ready) ==
    IF ~ready
    THEN [raise |-> HTTPException(500, "Keycloak admin client not initialized"),
          calls |-> <<>>]
    ELSE
    LET users == keycloak_admin_get_users(accts, email, f[1])
        c1 == <<Call("get_users", <<email>>, users)>>
    IN  IF Raised(users) THEN [ok |-> TRUE, calls |-> c1]
        ELSE IF users.ok = {} THEN [ok |-> TRUE, calls |-> c1]
        ELSE
        LET user_id == CHOOSE id \in users.ok : TRUE
            sent == keycloak_admin_send_update_account(f[2])
        IN  [ok |-> TRUE,
             calls |-> Append(c1, Call("send_update_account", <<user_id>>, sent))]

PasswordResetResponse ==
    [success |-> TRUE,
     message |-> "If the email address exists in our system, a password reset link has been sent."]

\* as request_password_reset, with the exception of the service passed on
request_password_reset_raising(email, f, accts, ready) ==
    LET r == send_password_reset_email(email, f, accts, ready)
    IN  IF Raised(r)
        THEN [status_code |-> r.raise.status_code, body |-> [detail |-> r.raise.detail],
              calls |-> r.calls]
        ELSE [status_code |-> 200, body |-> PasswordResetResponse, calls |-> r.calls]

\* main.request_password_reset: the answer to POST /auth/password-reset, the
\* same in the try and in the except branch
request_password_reset(email, f, accts, ready) ==
    LET r == send_password_reset_email(email, f, accts, ready)
    IN  IF Raised(r)
        THEN [status_code |-> 200, body |-> PasswordResetResponse, calls |-> r.calls]
        ELSE [status_code |-> 200, body |-> PasswordResetResponse, calls |-> r.calls]

\* keycloak_admin.get_user: HTTP 404 when the realm has no such user
keycloak_admin_get_user(accts, user_id, fault) ==
    IF fault # "none" THEN [raise |-> fault_error(fault)]
    ELSE IF user_id \notin DOMAIN accts
    THEN [raise |-> KeycloakError("KeycloakGetError", "404", "User not found")]
    ELSE [ok |-> [id |-> user_id, username |-> accts[user_id].username]]

\* keycloak_admin.set_user_password
keycloak_admin_set_user_password(fault) ==
    IF fault # "none" THEN [raise |-> fault_error(fault)] ELSE [ok |-> None]

\* the handler of the whole try block of change_user_password
change_password_except(e) == HTTPException(500, "Error changing password")

\* as change_user_password, a rejected current password being ignored
change_user_password_unverified(user_id, current_password, new_password, f, accts, ready) ==
    IF ~ready
    THEN [raise |-> HTTPException(500, "Keycloak admin client not initialized"),
          calls |-> <<>>, accounts |-> accts]
    ELSE
    LET user == keycloak_admin_get_user(accts, user_id, f[1])
        c1 == <<Call("get_user", <<user_id>>, user)>>
    IN  IF Raised(user)
        THEN [raise |-> change_password_except(user.raise), calls |-> c1, accounts |-> accts]
        ELSE IF DictGet(user.ok, "username", None) = None
        THEN [raise |-> HTTPException(404, "User not found"), calls |-> c1, accounts |-> accts]
        ELSE
        LET uname == user.ok.username
            token == keycloak_openid_token(accts, uname, current_password, f[2])
            c2 == Append(c1, Call("token", <<uname, current_password>>, token))
            set == keycloak_admin_set_user_password(f[3])
            c3 == Append(c2, Call("set_user_password", <<user_id, new_password>>, set))
        IN  IF Raised(token) /\ token.raise.type # "KeycloakAuthenticationError"
            THEN [raise |-> change_password_except(token.raise), calls |-> c2, accounts |-> accts]
            ELSE IF Raised(set)
            THEN [raise |-> change_password_except(set.raise), calls |-> c3, accounts |-> accts]
            ELSE [ok |-> TRUE, calls |-> c3,
                  accounts |-> [accts EXCEPT ![user_id].password = new_password]]

\* change_user_password: resolve the user, log in with the current
\* password, then set the new one
change_user_password(user_id, current_password, new_password, f, accts, ready) ==
    IF ~ready
    THEN [raise |-> HTTPException(500, "Keycloak admin client not initialized"),
          calls |-> <<>>, accounts |-> accts]
    ELSE
    LET user == keycloak_admin_get_user(accts, user_id, f[1])
        c1 == <<Call("get_user", <<user_id>>, user)>>
    IN  IF Raised(user)
        THEN [raise |-> change_password_except(user.raise), calls |-> c1, accounts |-> accts]
        ELSE IF DictGet(user.ok, "username", None) = None
        THEN [raise |-> HTTPException(404, "User not found"), calls |-> c1, accounts |-> accts]
        ELSE
        LET uname == user.ok.username
            token == keycloak_openid_token(accts, uname, current_password, f[2])
            c2 == Append(c1, Call("token", <<uname, current_password>>, token))
            set == keycloak_admin_set_user_password(f[3])
            c3 == Append(c2, Call("set_user_password", <<user_id, new_password>>, set))
        IN  IF Raised(token) /\ token.raise.type = "KeycloakAuthenticationError"
            THEN [raise |-> HTTPException(400, "Current password is incorrect"),
                  calls |-> c2, accounts |-> accts]
            ELSE IF Raised(token)
            THEN [raise |-> change_password_except(token.raise), calls |-> c2, accounts |-> accts]
            ELSE IF Raised(set)
            THEN [raise |-> change_password_except(set.raise), calls |-> c3, accounts |-> accts]
            ELSE [ok |-> TRUE, calls |-> c3,
                  accounts |-> [accts EXCEPT ![user_id].password = new_password]]

\* main.change_password: the answer to POST /auth/change-password for the
\* user of the session token
change_password(user_id, current_password, new_password, f, accts, ready) ==
    LET r == change_user_password(user_id, current_password, new_password, f, accts, ready)
    IN  IF Raised(r)
        THEN [status_code |-> r.raise.status_code, body |-> [detail |-> r.raise.detail],
              calls |-> r.calls, accounts |-> r.accounts]
        ELSE [status_code |-> 200,
              body |-> [success |-> TRUE, message |-> "Password changed successfully"],
              calls |-> r.calls, accounts |-> r.accounts]

\* ---- inputs of the identity-provider specification

Passwords == {"pw1", "pw2"}
LoginNames == {"alice", "bob", "mallory"}
Emails == {"alice@example.com", "bob@example.com", "nobody@example.com"}
UserIds == {"id-alice", "id-bob", "id-mallory"}

\* the registrations tried: a new or a taken username, with or without an
\* email, a role the realm has or has not
Registrations ==
    {[username |-> u, password |-> "pw1", email |-> m, first_name |-> None,
      last_name |-> None, role |-> r] :
        u \in {"alice", "bob"}, m \in {"bob@example.com", None}, r \in {"user", "ghost"}}

FaultsOf(n) == [1..n -> Faults]

\* ---- actions of the identity-provider specification: the server handles
\* one request at a time, start to answer

Response(endpoint, request, f, r) ==
    [endpoint |-> endpoint, request |-> request, faults |-> f,
     status_code |-> r.status_code, body |-> r.body, before |-> accounts]

post_auth_login ==
    /\ response = <<>>
    /\ \E uname \in LoginNames, password \in Passwords, f \in FaultsOf(3) :
        LET r == auth_login(uname, password, f, accounts, keycloak_ready, now)
        IN  /\ calls' = r.calls
            /\ response' = Response("login", [username |-> uname, password |-> password], f, r)
            /\ UNCHANGED <<keycloak_ready, accounts>>
            /\ UNCHANGED <<roleVars, tokenVars, profileVars>>

post_auth_register ==
    /\ response = <<>>
    /\ \E user \in Registrations, f \in FaultsOf(4) :
        LET r == register(user, f, accounts, keycloak_ready)
        IN  /\ calls' = r.calls
            /\ accounts' = r.accounts
            /\ response' = Response("register", user, f, r)
            /\ UNCHANGED keycloak_ready
            /\ UNCHANGED <<roleVars, tokenVars, profileVars>>

post_auth_password_reset ==
    /\ response = <<>>
    /\ \E email \in Emails, f \in FaultsOf(2) :
        LET r == request_password_reset(email, f, accounts, keycloak_ready)
        IN  /\ calls' = r.calls
            /\ response' = Response("password-reset", [email |-> email], f, r)
            /\ UNCHANGED <<keycloak_ready, accounts>>
            /\ UNCHANGED <<roleVars, tokenVars, profileVars>>

post_auth_change_password ==
    /\ response = <<>>
    /\ \E user_id \in UserIds, current_password \in Passwords,
       new_password \in Passwords, f \in FaultsOf(3) :
        LET r == change_password(user_id, current_password, new_password, f,
                                 accounts, keycloak_ready)
        IN  /\ calls' = r.calls
            /\ accounts' = r.accounts
            /\ response' = Response("change-password",
                                    [user_id |-> user_id,
                                     current_password |-> current_password,
                                     new_password |-> new_password], f, r)
            /\ UNCHANGED keycloak_ready
            /\ UNCHANGED <<roleVars, tokenVars, profileVars>>

\* the answer has gone to the client; the server takes the next request
reply ==
    /\ response # <<>>
    /\ response' = <<>>
    /\ calls' = <<>>
    /\ UNCHANGED <<keycloak_ready, accounts>>
    /\ UNCHANGED <<roleVars, tokenVars, profileVars>>

\* the import of auth.py either built both Keycloak clients or left both None
InitIdp ==
    /\ RoleInit
    /\ TokenInit
    /\ ProfileInit
    /\ keycloak_ready \in BOOLEAN
    /\ accounts = FirstAccounts
    /\ calls = <<>>
    /\ response = <<>>

NextIdp ==
    \/ post_auth_login
    \/ post_auth_register
    \/ post_auth_password_reset
    \/ post_auth_change_password
    \/ reply

SpecIdp == InitIdp /\ [][NextIdp]_vars

\* ------------------------------------------------------------ profiles

MaxRequests == 3

\* Optional[User] without a row: the result None of .first()
NoUser == <<>>

\* as get_user_by_keycloak_id, without the filter on keycloak_id
get_user_unfiltered(db, keycloak_id) ==
    IF Len(db) > 0 THEN db[1] ELSE NoUser

\* get_user_by_keycloak_id: the first row of the identity, or None
get_user_by_keycloak_id(db, keycloak_id) ==
    IF \E i \in 1..Len(db) : db[i].keycloak_id = keycloak_id
    THEN db[CHOOSE i \in 1..Len(db) :
                /\ db[i].keycloak_id = keycloak_id
                /\ \A j \in 1..(i - 1) : db[j].keycloak_id # keycloak_id]
    ELSE NoUser

\* the columns a profile request may set
ProfileFields == {"full_name", "phone", "address", "city", "country", "timezone"}

\* UserProfileCreate / UserProfileUpdate: the six fields of a request body
Profile(full_name, phone, address, city, country, timezone) ==
    [full_name |-> full_name, phone |-> phone, address |-> address,
     city |-> city, country |-> country, timezone |-> timezone]

\* the row an insert stores; the primary key counts the rows and both
\* timestamps take the server default func.now()
User(db, keycloak_id, profile_data, utcnow) ==
    [id |-> Len(db) + 1, keycloak_id |-> keycloak_id,
     created_at |-> utcnow, updated_at |-> utcnow] @@ profile_data

\* as create_user_profile, on a table without the unique constraint
create_user_profile_without_unique(db, keycloak_id, profile_data, utcnow) ==
    [ok |-> User(db, keycloak_id, profile_data, utcnow),
     db |-> Append(db, User(db, keycloak_id, profile_data, utcnow))]

\* create_user_profile: add and commit; the unique constraint on
\* keycloak_id makes the commit fail with IntegrityError, which is rolled
\* back and raised again as ValueError
create_user_profile(db, keycloak_id, profile_data, utcnow) ==
    IF \E i \in 1..Len(db) : db[i].keycloak_id = keycloak_id
    THEN [raise |-> [type |-> "ValueError", text |-> "User profile already exists"],
          db |-> db]
    ELSE [ok |-> User(db, keycloak_id, profile_data, utcnow),
          db |-> Append(db, User(db, keycloak_id, profile_data, utcnow))]

\* the assignments of update_user_profile: a field of the body that is not
\* None is set on the row
assign_fields(user, profile_data) ==
    [k \in DOMAIN user |->
        IF k \in ProfileFields /\ profile_data[k] # None
        THEN profile_data[k] ELSE user[k]]

\* db.commit() on a loaded row: the session writes an UPDATE, and with it
\* onupdate=func.now(), only when a column value differs from the loaded one
commit_update(user, assigned, utcnow) ==
    IF assigned # user THEN [assigned EXCEPT !.updated_at = utcnow] ELSE user

\* as update_user_profile, only the name being taken from the body
update_user_profile_name_only(db, user, profile_data, utcnow) ==
    LET assigned == IF profile_data.full_name # None
                    THEN [user EXCEPT !.full_name = profile_data.full_name]
                    ELSE user
        updated == commit_update(user, assigned, utcnow)
    IN  [ok |-> updated, db |-> [db EXCEPT ![user.id] = updated]]

\* as update_user_profile, a None of the body being stored as well
update_user_profile_replace(db, user, profile_data, utcnow) ==
    LET assigned == [k \in DOMAIN user |->
                        IF k \in ProfileFields THEN profile_data[k] ELSE user[k]]
        updated == commit_update(user, assigned, utcnow)
    IN  [ok |-> updated, db |-> [db EXCEPT ![user.id] = updated]]

\* update_user_profile: set the fields that are not None, commit, refresh
update_user_profile(db, user, profile_data, utcnow) ==
    LET assigned == assign_fields(user, profile_data)
        updated == commit_update(user, assigned, utcnow)
    IN  [ok |-> updated, db |-> [db EXCEPT ![user.id] = updated]]

UserProfileResponse(user) ==
    [id |-> user.id, keycloak_id |-> user.keycloak_id, full_name |-> user.full_name,
     phone |-> user.phone, address |-> user.address, city |-> user.city,
     country |-> user.country, timezone |-> user.timezone,
     created_at |-> user.created_at]

\* ---- inputs of the profile specification

Identities == {"id-alice", "id-bob"}

\* the bodies of POST /users/me
Creations ==
    {Profile("Alice A.", None, None, "A", None, None),
     Profile("Bob B.", "555", "Street 1", "A", "AR", "UTC")}

\* the bodies of PUT /users/me: every field None, one field set, and the
\* fields of a creation again
Patches ==
    {Profile(None, None, None, None, None, None),
     Profile(None, None, None, None, "B", None),
     Profile("Alice A.", None, None, "A", None, None)}

\* a request under way: the method, the identity of its session token, its
\* body, where its handler stands, whether the identity had a row when its
\* last step ran, that row, the row after the step, and its answer once it
\* has one
Request(method, user_id, profile_data, at, found, stored, answer) ==
    [method |-> method, user_id |-> user_id, profile_data |-> profile_data,
     pc |-> at, existed |-> found # NoUser, found |-> found, stored |-> stored,
     response |-> answer]

\* the user of the session token that carries user_id
current_user_of(user_id) == CHOOSE u \in UserInfos : u.user_id = user_id

\* UserStatusResponse(has_profile, profile_complete, next_step, user_info,
\* profile_data)
UserStatusResponse(has_profile, profile_complete, next_step, user_info, profile_data) ==
    [has_profile |-> has_profile, profile_complete |-> profile_complete,
     next_step |-> next_step, user_info |-> user_info, profile_data |-> profile_data]

\* the user_info dict of a status answer
status_user_info(user) ==
    [username |-> user.username, email |-> user.email,
     first_name |-> user.first_name, last_name |-> user.last_name]

\* response_model=UserStatusResponse: the returned object is validated
\* against the model, and one without its required fields is answered 500
UserStatusRequired == {"has_profile", "profile_complete", "next_step"}

serialize_response(content) ==
    IF UserStatusRequired \subseteq DOMAIN content
    THEN [status_code |-> 200, body |-> content]
    ELSE HTTPException(500, "Internal Server Error")

\* get_user_status: without a row the status object; with a row the first
\* return statement, which returns the profile itself
get_user_status(db, user) ==
    LET row == get_user_by_keycloak_id(db, user.user_id)
    IN  IF row = NoUser
        THEN serialize_response(
                UserStatusResponse(FALSE, FALSE, "complete_profile",
                                   status_user_info(user), None))
        ELSE serialize_response(UserProfileResponse(row))

\* get_my_profile: 404 without a row, else the profile
get_my_profile(db, user) ==
    LET row == get_user_by_keycloak_id(db, user.user_id)
    IN  IF row = NoUser
        THEN HTTPException(404, "User profile not found. Please complete your profile.")
        ELSE [status_code |-> 200, body |-> UserProfileResponse(row)]

\* ---- actions of the profile specification: requests are served by
\* several workers on one database, so a step of one request may fall
\* between two steps of another; db_now is the clock of the database

\* create_my_profile up to the existence check: 409 when a row is found
create_my_profile_check ==
    /\ Len(requests) < MaxRequests
    /\ \E user_id \in Identities, profile_data \in Creations :
        LET existing_user == get_user_by_keycloak_id(rows, user_id)
        IN  requests' = Append(requests,
                IF existing_user # NoUser
                THEN Request("POST", user_id, profile_data, "done", existing_user,
                             existing_user,
                             HTTPException(409, "User profile already exists. Use PUT to update."))
                ELSE Request("POST", user_id, profile_data, "create", NoUser, NoUser, <<>>))
    /\ db_now' = db_now + 1
    /\ UNCHANGED rows
    /\ UNCHANGED <<roleVars, tokenVars, idpVars>>

\* create_my_profile from the insert on: 201 with the row, or 400 with the
\* text of the ValueError
create_my_profile_create ==
    /\ \E r \in 1..Len(requests) :
        /\ requests[r].pc = "create"
        /\ LET created == create_user_profile(rows, requests[r].user_id,
                                              requests[r].profile_data, db_now)
               found == get_user_by_keycloak_id(rows, requests[r].user_id)
           IN  /\ rows' = created.db
               /\ requests' = [requests EXCEPT ![r] =
                    Request("POST", @.user_id, @.profile_data, "done", found,
                        get_user_by_keycloak_id(created.db, @.user_id),
                        IF Raised(created)
                        THEN HTTPException(400, created.raise.text)
                        ELSE [status_code |-> 201,
                              body |-> UserProfileResponse(created.ok)])]
    /\ db_now' = db_now + 1
    /\ UNCHANGED <<roleVars, tokenVars, idpVars>>

\* update_my_profile: 404 when the identity has no row, else the updated row
update_my_profile ==
    /\ Len(requests) < MaxRequests
    /\ \E user_id \in Identities, profile_data \in Patches :
        LET user == get_user_by_keycloak_id(rows, user_id)
            updated == update_user_profile(rows, user, profile_data, db_now)
        IN  IF user = NoUser
            THEN /\ requests' = Append(requests,
                        Request("PUT", user_id, profile_data, "done", NoUser, NoUser,
                            HTTPException(404, "User profile not found. Create profile first.")))
                 /\ UNCHANGED rows
            ELSE /\ requests' = Append(requests,
                        Request("PUT", user_id, profile_data, "done", user, updated.ok,
                            [status_code |-> 200,
                             body |-> UserProfileResponse(updated.ok)]))
                 /\ rows' = updated.db
    /\ db_now' = db_now + 1
    /\ UNCHANGED <<roleVars, tokenVars, idpVars>>

\* a request that only reads: GET /users/me, GET /auth/status, GET /auth/me
read_request(method, user_id, answer) ==
    /\ requests' = Append(requests,
            Request(method, user_id, None, "done",
                    get_user_by_keycloak_id(rows, user_id),
                    get_user_by_keycloak_id(rows, user_id), answer))
    /\ db_now' = db_now + 1
    /\ UNCHANGED rows
    /\ UNCHANGED <<roleVars, tokenVars, idpVars>>

get_my_profile_request ==
    /\ Len(requests) < MaxRequests
    /\ \E user_id \in Identities :
        read_request("GET /users/me", user_id,
                     get_my_profile(rows, current_user_of(user_id)))

get_user_status_request ==
    /\ Len(requests) < MaxRequests
    /\ \E user_id \in Identities :
        read_request("GET /auth/status", user_id,
                     get_user_status(rows, current_user_of(user_id)))

\* GET /auth/me: get_user_profile returns the user of the token
get_user_profile ==
    /\ Len(requests) < MaxRequests
    /\ \E user_id \in Identities :
        read_request("GET /auth/me", user_id,
                     [status_code |-> 200, body |-> current_user_of(user_id)])

NextProfile ==
    \/ create_my_profile_check
    \/ create_my_profile_create
    \/ update_my_profile
    \/ get_my_profile_request
    \/ get_user_status_request
    \/ get_user_profile

SpecProfile == Init /\ [][NextProfile]_vars

\* --------------------------------------------------------------- claims

\* the response of get_roles_for_frontend / GET /auth/me/roles is there
HasFrontend == "access_levels" \in DOMAIN frontend
HasMeRoles == "access_levels" \in DOMAIN me_roles

StartsWith(s, prefix) ==
    /\ Len(s) >= Len(prefix)
    /\ \A i \in 1..Len(prefix) : s[i] = prefix[i]

\* provider-reserved role names: "default-roles-*", "offline_access",
\* "uma_authorization", "uma_protection"
IsReservedName(name) ==
    \/ StartsWith(Spell[name], <<"d","e","f","a","u","l","t","-","r","o","l","e","s","-">>)
    \/ name \in {"offline_access", "uma_authorization", "uma_protection"}

\* the roles the identity provider asserts in the payload: name and scope
HeldRoles ==
    {<<realm_roles_of(token_info)[i], REALM>> : i \in 1..Len(realm_roles_of(token_info))}
    \cup UNION {{<<r, CLIENT>> : r \in Range(DictGet(resource_items_of(token_info)[k][2], "roles", <<>>))} :
                  k \in 1..Len(resource_items_of(token_info))}

\* the session carries exactly the role names of the extracted roles
SessionIsFlattenedFrontend == HasFrontend /\ HasMeRoles /\ me_roles.roles = frontend.simple_roles

\* C1: no role produced by extraction, and no name in the flattened role
\* list of authenticate_user, is a provider-reserved name, whichever section
\* of the payload it came from.
C1_NoReservedRole ==
    /\ HasFrontend =>
         \A i \in 1..Len(frontend.roles) : ~IsReservedName(frontend.roles[i].name)
    /\ pc = "authenticated" =>
         \A i \in 1..Len(current_user.roles) : ~IsReservedName(current_user.roles[i])

\* C2: every flag computed by calculate_user_permissions(R) has the same
\* value as the same-named flag GET /auth/me/roles computes from the
\* flattened name list of R.
C2_CallSitesAgree ==
    SessionIsFlattenedFrontend =>
        \A flag \in DOMAIN frontend.access_levels \cap DOMAIN me_roles.access_levels :
            frontend.access_levels[flag] = me_roles.access_levels[flag]

\* C3: is_admin is true exactly when the principal holds a role named
\* "admin" at realm scope, at both call sites.
C3_IsAdminIffRealmAdmin ==
    /\ HasFrontend =>
         (frontend.access_levels.is_admin <=> <<"admin", REALM>> \in HeldRoles)
    /\ HasMeRoles =>
         (me_roles.access_levels.is_admin <=> <<"admin", REALM>> \in HeldRoles)

\* C4: can_moderate is true exactly when "content:moderate" is in the
\* derived permissions or some role is named "admin", at both call sites.
C4_CanModerate ==
    /\ HasFrontend =>
         (frontend.access_levels.can_moderate <=>
            \/ InList("content:moderate", frontend.permissions)
            \/ \E i \in 1..Len(frontend.roles) : frontend.roles[i].name = "admin")
    /\ HasMeRoles =>
         (me_roles.access_levels.can_moderate <=>
            \/ InList("content:moderate", me_roles.permissions)
            \/ InList("admin", me_roles.roles))

\* C5: can_export_data is true exactly when "analytics:export" is in the
\* derived permissions or some role is named "dashboard-admin", at both
\* call sites.
C5_CanExportData ==
    /\ HasFrontend =>
         (frontend.access_levels.can_export_data <=>
            \/ InList("analytics:export", frontend.permissions)
            \/ \E i \in 1..Len(frontend.roles) : frontend.roles[i].name = "dashboard-admin")
    /\ HasMeRoles =>
         (me_roles.access_levels.can_export_data <=>
            \/ InList("analytics:export", me_roles.permissions)
            \/ InList("dashboard-admin", me_roles.roles))

AccessLevelKeys ==
    {"is_admin", "is_moderator", "is_standard_user", "can_view_admin",
     "can_manage_users", "can_moderate", "can_view_analytics",
     "can_export_data", "can_access_api"}

\* C6: every access-level map returned has exactly the nine flag names as
\* keys, each mapped to a boolean.
C6_NineFlags ==
    /\ HasFrontend =>
         /\ DOMAIN frontend.access_levels = AccessLevelKeys
         /\ \A k \in DOMAIN frontend.access_levels : frontend.access_levels[k] \in BOOLEAN
    /\ HasMeRoles =>
         /\ DOMAIN me_roles.access_levels = AccessLevelKeys
         /\ \A k \in DOMAIN me_roles.access_levels : me_roles.access_levels[k] \in BOOLEAN

\* C7: the permissions GET /auth/me/roles returns are those of the table
\* entries that match a held role on both name and scope; a role with no
\* entry for its own scope contributes nothing.
C7_ExactMatchPermissions ==
    (HasMeRoles /\ username # DEV_USERNAME) =>
        \A p \in Range(me_roles.permissions) :
            \E held \in HeldRoles \cap DOMAIN ROLE_PERMISSIONS :
                InList(p, ROLE_PERMISSIONS[held])

NoTableEntry(role) == <<role.name, role.type>> \notin DOMAIN ROLE_PERMISSIONS

\* C8 as stated: a role with no table entry gets no permissions and the
\* description "{role} role" with the role name as given.
C8_DescriptionAsGiven ==
    HasFrontend =>
        \A i \in 1..Len(frontend.roles) :
            NoTableEntry(frontend.roles[i]) =>
                /\ frontend.roles[i].permissions = <<>>
                /\ frontend.roles[i].description
                     = Spell[frontend.roles[i].name] \o <<" ", "r", "o", "l", "e">>

\* d is s in title case: the same letters, a cased letter in upper case
\* exactly when it starts the string or follows an uncased character
IsTitleCaseOf(d, s) ==
    /\ Len(d) = Len(s)
    /\ \A i \in 1..Len(s) :
          /\ ToLower(d[i]) = ToLower(s[i])
          /\ IsCased(s[i]) =>
                (InList(d[i], UpperLetters) <=> (i = 1 \/ ~IsCased(s[i-1])))

\* C8 (amended): a role with no table entry gets no permissions and the
\* description made of the role name in title case followed by " role".
C8_TitleCasedDescription ==
    HasFrontend =>
        \A i \in 1..Len(frontend.roles) :
            NoTableEntry(frontend.roles[i]) =>
                LET d == frontend.roles[i].description
                    n == Len(Spell[frontend.roles[i].name])
                IN  /\ frontend.roles[i].permissions = <<>>
                    /\ Len(d) = n + 5
                    /\ IsTitleCaseOf(SubSeq(d, 1, n), Spell[frontend.roles[i].name])
                    /\ SubSeq(d, n + 1, n + 5) = <<" ", "r", "o", "l", "e">>

\* a realm-scoped and a client-scoped role without table entry were looked
\* up, one of them sharing its name with an entry of the other scope
C8_Witness ==
    /\ HasFrontend
    /\ \E i, j \in 1..Len(frontend.roles) :
          /\ frontend.roles[i].name = "dashboard-admin" /\ frontend.roles[i].type = REALM
          /\ frontend.roles[j].name = "developer" /\ frontend.roles[j].type = CLIENT

NoDuplicates(s) == \A i, j \in 1..Len(s) : s[i] = s[j] => i = j

\* C9: the effective permissions are the union of the mapped permissions of
\* the roles: a permission is listed iff some role maps to it, and listed
\* once, in calculate_user_permissions and in get_user_permissions_from_roles.
C9_PermissionUnion ==
    /\ HasFrontend =>
         /\ NoDuplicates(frontend.permissions)
         /\ Range(frontend.permissions) =
              UNION {Range(DictGet(ROLE_PERMISSIONS,
                                   <<frontend.roles[i].name, frontend.roles[i].type>>, <<>>)) :
                       i \in 1..Len(frontend.roles)}
    /\ HasMeRoles =>
         /\ NoDuplicates(me_roles.permissions)
         /\ Range(me_roles.permissions) =
              UNION {LET realm == DictGet(ROLE_PERMISSIONS, <<me_roles.roles[i], REALM>>, <<>>)
                         client == DictGet(ROLE_PERMISSIONS, <<me_roles.roles[i], CLIENT>>, <<>>)
                     IN  IF realm # <<>> THEN Range(realm) ELSE Range(client) :
                       i \in 1..Len(me_roles.roles)}

\* both call sites answered for two roles whose permissions overlap
C9_Witness ==
    /\ HasFrontend /\ HasMeRoles
    /\ \E i, j \in 1..Len(frontend.roles) :
          /\ i # j
          /\ Range(frontend.roles[i].permissions) \cap Range(frontend.roles[j].permissions) # {}
    /\ Len(me_roles.permissions) > 0

\* C10: in the extracted sequence every realm role precedes every client
\* role; a realm role has no client_id and a client role has the client_id
\* of the client section that lists its name.
C10_RealmBeforeClient ==
    HasFrontend =>
        /\ \A i, j \in 1..Len(frontend.roles) :
              (frontend.roles[i].type = REALM /\ frontend.roles[j].type = CLIENT) => i < j
        /\ \A i \in 1..Len(frontend.roles) :
              LET role == frontend.roles[i]
              IN  /\ role.type = REALM =>
                        /\ role.client_id = None
                        /\ InList(role.name, realm_roles_of(token_info))
                  /\ role.type = CLIENT =>
                        \E k \in 1..Len(resource_items_of(token_info)) :
                            /\ resource_items_of(token_info)[k][1] = role.client_id
                            /\ InList(role.name,
                                      DictGet(resource_items_of(token_info)[k][2], "roles", <<>>))

\* a realm role and a client role were extracted from a payload with two
\* client sections, the role coming from the second
C10_Witness ==
    /\ HasFrontend
    /\ Len(resource_items_of(token_info)) = 2
    /\ \E i, j \in 1..Len(frontend.roles) :
          /\ frontend.roles[i].type = REALM
          /\ frontend.roles[j].type = CLIENT
          /\ frontend.roles[j].client_id = resource_items_of(token_info)[2][1]

\* ------------------------------------------------ claims: session tokens

HasVerdict == "result" \in DOMAIN verdict
Accepted == HasVerdict /\ "user_info" \in DOMAIN verdict.result
Rejected == HasVerdict /\ "user_info" \notin DOMAIN verdict.result
HasIssued == "token" \in DOMAIN issued

DefaultTtl == 60 * 30

\* C11: get_current_user on the token issued at login, at any instant before
\* the ttl has elapsed, returns the username, email, first_name, last_name,
\* roles and user_id that were issued.
C11_RoundTrip ==
    (HasVerdict /\ issued.by = "login" /\ verdict.token = issued.token
       /\ verdict.at < issued.at + DefaultTtl) =>
        /\ Accepted
        /\ verdict.result.user_info.username = issued.user_info.username
        /\ verdict.result.user_info.email = issued.user_info.email
        /\ verdict.result.user_info.first_name = issued.user_info.first_name
        /\ verdict.result.user_info.last_name = issued.user_info.last_name
        /\ verdict.result.user_info.roles = issued.user_info.roles
        /\ verdict.result.user_info.user_id = issued.user_info.user_id

\* a login token was verified one second before its ttl elapsed, for an
\* identity with absent optional fields
C11_Witness ==
    /\ HasVerdict /\ issued.by = "login" /\ verdict.token = issued.token
    /\ issued.at > 0
    /\ verdict.at = issued.at + DefaultTtl - 1
    /\ issued.user_info.email = None

\* C12: verification accepts no token without an exp claim, none whose exp
\* is before the instant of verification and none whose signature does not
\* verify under the process secret; a token once rejected as expired is not
\* accepted later.
C12_RejectsUnexpiringExpiredForged ==
    /\ Accepted =>
         /\ "claims" \in DOMAIN verdict.token
         /\ verdict.token.signature = HS256(JWT_SECRET_KEY, verdict.token.claims)
         /\ "exp" \in DOMAIN verdict.token.claims
         /\ verdict.token.claims.exp >= verdict.at
    /\ ~(Accepted /\ verdict.token = issued.token /\ expired_seen)

\* C13: the exp of an issued token is the instant of issue plus the duration
\* passed, zero and negative durations included, and the default 30 minutes
\* only when none is passed; so a token issued with a duration of -1s or 0
\* is accepted at no later instant.
C13_ExpiryIsIssuePlusTtl ==
    /\ HasIssued =>
         issued.token.claims.exp =
            issued.at + (IF issued.delta = <<>> THEN DefaultTtl ELSE issued.delta[1])
    /\ (Accepted /\ verdict.token = issued.token /\ verdict.at > issued.at) =>
         issued.delta \notin {<<-1>>, <<0>>}

\* the cases of C14: the token is unparseable, or its signature is bad, or
\* it is expired, or it is validly signed and has no subject
NamedFailure ==
    /\ HasVerdict
    /\ \/ "claims" \notin DOMAIN verdict.token
       \/ verdict.token.signature # HS256(JWT_SECRET_KEY, verdict.token.claims)
       \/ ("exp" \in DOMAIN verdict.token.claims /\ verdict.token.claims.exp < verdict.at)
       \/ "sub" \notin DOMAIN verdict.token.claims

\* C14: an expired token, a token with a bad signature, an unparseable token
\* and a validly signed token without subject all get the same response:
\* 401 with the one detail text.
C14_UniformRejection ==
    /\ NamedFailure => Rejected
    /\ Rejected =>
         verdict.result = [status_code |-> 401, detail |-> "Could not validate credentials"]

\* the issued token itself was rejected because it had expired
C14_Witness ==
    /\ Rejected
    /\ verdict.token = issued.token
    /\ verdict.token.claims.exp < verdict.at


\* ------------------------------------------- claims: identity provider

Answered(endpoint) ==
    "endpoint" \in DOMAIN response /\ response.endpoint = endpoint

HasCall(op) == \E i \in 1..Len(calls) : calls[i].op = op

CallOk(op) == \E i \in 1..Len(calls) : calls[i].op = op /\ calls[i].raised = None

\* the identity provider was asked for a token, answered, and no account of
\* its own has the username with the password
PairRejected ==
    /\ HasCall("token")
    /\ response.faults[1] = "none"
    /\ ~\E id \in DOMAIN response.before :
            /\ response.before[id].username = response.request.username
            /\ response.before[id].password = response.request.password

\* the client was never built, or a call did not reach the identity provider
IdpUnavailable ==
    \/ ~keycloak_ready
    \/ \E i \in 1..Len(calls) : calls[i].raised = "KeycloakConnectionError"

ReturnsToken == "access_token" \in DOMAIN response.body

\* C15: POST /auth/login answers 401 exactly when the identity provider
\* rejects the username/password pair; with the client uninitialised or
\* the provider unreachable it answers a 5xx code, never 401 and never a
\* token; it returns a token only when the token, userinfo and introspection
\* calls all succeeded.
C15_LoginStatus ==
    Answered("login") =>
        /\ (response.status_code = 401) <=> PairRejected
        /\ IdpUnavailable =>
              /\ response.status_code >= 500
              /\ response.status_code # 401
              /\ ~ReturnsToken
        /\ ReturnsToken =>
              CallOk("token") /\ CallOk("userinfo") /\ CallOk("introspect")

\* C16: POST /auth/password-reset answers success = true with the same
\* message in every case: the email matches an account, matches none, the
\* lookup or the send call fails, the admin client is uninitialised.
C16_ResetAlwaysSucceeds ==
    Answered("password-reset") =>
        /\ response.status_code = 200
        /\ response.body.success = TRUE
        /\ response.body = PasswordResetResponse

\* a reset was answered although the service raised (no admin client)
C16_Witness ==
    /\ Answered("password-reset")
    /\ ~keycloak_ready
    /\ calls = <<>>
    /\ response.body.success = TRUE

\* the account the change-password request is for could not be resolved
UserUnresolved == ~CallOk("get_user")

\* the login with the current password was rejected or failed
CurrentPasswordNotVerified == HasCall("token") /\ ~CallOk("token")

\* C17: in POST /auth/change-password set_user_password is called only
\* after a login of the account's username with the supplied current
\* password succeeded in the same request; when that login is rejected or
\* fails, or the user cannot be resolved, set_user_password is not called
\* and the stored passwords are unchanged.
C17_VerifyBeforeSet ==
    Answered("change-password") =>
        /\ \A i \in 1..Len(calls) :
              calls[i].op = "set_user_password" =>
                  \E j \in 1..(i - 1) :
                      /\ calls[j].op = "token"
                      /\ calls[j].raised = None
                      /\ calls[j].args =
                            <<response.before[response.request.user_id].username,
                              response.request.current_password>>
        /\ (UserUnresolved \/ CurrentPasswordNotVerified) =>
              /\ ~HasCall("set_user_password")
              /\ accounts = response.before

\* a password was changed after its verification, and the account now has
\* the new one
C17_Witness ==
    /\ Answered("change-password")
    /\ CallOk("token")
    /\ CallOk("set_user_password")
    /\ accounts # response.before
    /\ accounts[response.request.user_id].password = response.request.new_password

RoleAssigned ==
    CallOk("create_user") /\ CallOk("get_realm_role") /\ CallOk("assign_realm_roles")

EmailSendFailed == HasCall("send_verify_email") /\ ~CallOk("send_verify_email")

\* C18: when the account was created and its role assigned, a failure of
\* the verification-email send does not fail the registration: POST
\* /auth/register still returns the id of the created user.
C18_EmailFailureSwallowed ==
    (Answered("register") /\ RoleAssigned /\ EmailSendFailed) =>
        /\ response.status_code = 200
        /\ "user_id" \in DOMAIN response.body
        /\ response.body.user_id \in DOMAIN accounts
        /\ response.body.user_id \notin DOMAIN response.before
        /\ accounts[response.body.user_id].username = response.request.username

\* a registration answered with the new user's id although the email send
\* failed
C18_Witness ==
    /\ Answered("register")
    /\ RoleAssigned
    /\ EmailSendFailed
    /\ "user_id" \in DOMAIN response.body

\* ------------------------------------------------- claims: profiles

Done(r) == requests[r].pc = "done"

StatusOf(r) == requests[r].response.status_code

\* the answer of a creation that lost to another one: the conflict of the
\* existence check, or the ValueError of the insert
DuplicateProfileError(r) ==
    /\ "detail" \in DOMAIN requests[r].response
    /\ \/ StatusOf(r) = 409
       \/ requests[r].response.detail = "User profile already exists"

DoneCreations(user_id) ==
    {r \in 1..Len(requests) :
        requests[r].method = "POST" /\ requests[r].user_id = user_id /\ Done(r)}

\* C19: of the profile creations answered for one identity, however their
\* steps interleave, exactly one created a row and every other failed with
\* the duplicate-profile error; the table never holds two rows of one
\* identity.
C19_OneProfilePerIdentity ==
    /\ \A i, j \in 1..Len(rows) :
            rows[i].keycloak_id = rows[j].keycloak_id => i = j
    /\ \A user_id \in Identities :
            DoneCreations(user_id) # {} =>
                /\ Cardinality({r \in DoneCreations(user_id) : StatusOf(r) = 201}) = 1
                /\ \A r \in DoneCreations(user_id) :
                        StatusOf(r) # 201 => DuplicateProfileError(r)

\* two creations for one identity both passed the existence check; one
\* inserted, the other's insert was refused
C19_Witness ==
    \E r1, r2 \in 1..Len(requests) :
        /\ r1 # r2
        /\ requests[r1].user_id = requests[r2].user_id
        /\ requests[r1].method = "POST" /\ requests[r2].method = "POST"
        /\ Done(r1) /\ Done(r2)
        /\ StatusOf(r1) = 201
        /\ requests[r2].existed
        /\ StatusOf(r2) # 409

\* C20: POST /users/me answers 409 whenever the identity has a profile when
\* the insert is attempted, also when a concurrent request created it after
\* this request's existence check; PUT /users/me answers 404 when the
\* identity has no profile.
C20_ConflictIs409 ==
    \A r \in 1..Len(requests) :
        Done(r) =>
            /\ (requests[r].method = "POST" /\ requests[r].existed) => StatusOf(r) = 409
            /\ (requests[r].method = "PUT" /\ ~requests[r].existed) => StatusOf(r) = 404

\* an update that found the caller's row and was answered with it
DoneUpdate(r) ==
    /\ requests[r].method = "PUT"
    /\ Done(r)
    /\ requests[r].existed

\* C21: a profile update is a partial merge: a field that is None in the
\* body keeps its value, a field that is not None is overwritten, and id,
\* keycloak_id and created_at are never changed.
C21_PartialMerge ==
    \A r \in 1..Len(requests) :
        DoneUpdate(r) =>
            /\ StatusOf(r) = 200
            /\ \A k \in ProfileFields :
                  requests[r].stored[k] =
                      IF requests[r].profile_data[k] = None
                      THEN requests[r].found[k]
                      ELSE requests[r].profile_data[k]
            /\ requests[r].stored.id = requests[r].found.id
            /\ requests[r].stored.keycloak_id = requests[r].found.keycloak_id
            /\ requests[r].stored.created_at = requests[r].found.created_at
            /\ requests[r].response.body = UserProfileResponse(requests[r].stored)

\* the update of the scenario: city "A" kept by a None, country set to "B"
C21_Witness ==
    \E r \in 1..Len(requests) :
        /\ DoneUpdate(r)
        /\ requests[r].found.city = "A"
        /\ requests[r].found.country # "B"
        /\ requests[r].profile_data.city = None
        /\ requests[r].profile_data.country = "B"
        /\ requests[r].stored.city = "A"
        /\ requests[r].stored.country = "B"

\* C22: every successful profile update refreshes updated_at, also one
\* whose body has every field None and one whose fields equal the stored
\* values.
C22_UpdatedAtRefreshed ==
    \A r \in 1..Len(requests) :
        (DoneUpdate(r) /\ StatusOf(r) = 200) =>
            requests[r].stored.updated_at > requests[r].found.updated_at

\* C23: GET /auth/status answers a status object in both cases: without a
\* profile row has_profile = false and next_step = "complete_profile"; with
\* a row has_profile = true, next_step = "dashboard" and the profile data.
C23_StatusObject ==
    \A r \in 1..Len(requests) :
        requests[r].method = "GET /auth/status" =>
            /\ StatusOf(r) = 200
            /\ "body" \in DOMAIN requests[r].response
            /\ UserStatusRequired \subseteq DOMAIN requests[r].response.body
            /\ ~requests[r].existed =>
                  /\ requests[r].response.body.has_profile = FALSE
                  /\ requests[r].response.body.next_step = "complete_profile"
            /\ requests[r].existed =>
                  /\ requests[r].response.body.has_profile = TRUE
                  /\ requests[r].response.body.next_step = "dashboard"
                  /\ requests[r].response.body.profile_data =
                        UserProfileResponse(requests[r].found)

\* C28: across any sequence of profile updates a field of a row that holds
\* a value never becomes None again.
C28_NoFieldCleared ==
    [][\A i \in 1..Len(rows) :
            /\ i <= Len(rows')
            /\ \A k \in ProfileFields :
                  rows[i][k] # None => rows'[i][k] # None]_vars

\* an update whose body had None for a field that held a value, which the
\* row still holds
C28_Witness ==
    \E r \in 1..Len(requests) :
        /\ DoneUpdate(r)
        /\ \E k \in ProfileFields :
              /\ requests[r].found[k] # None
              /\ requests[r].profile_data[k] = None
              /\ rows[requests[r].found.id][k] # None

\* the request that took a step
Acting(r) == r > Len(requests) \/ requests'[r] # requests[r]

\* C29: a profile request reads, creates or modifies only the row whose
\* keycloak_id is the user_id of the caller's token; every other row is
\* unchanged, no row is removed, and GET /users/me, GET /auth/status and
\* GET /auth/me change no row.
C29_ProfileIsolation ==
    /\ [](\A r \in 1..Len(requests) :
            /\ requests[r].found # NoUser =>
                  requests[r].found.keycloak_id = requests[r].user_id
            /\ requests[r].stored # NoUser =>
                  requests[r].stored.keycloak_id = requests[r].user_id)
    /\ [][/\ Len(rows') >= Len(rows)
          /\ \A i \in 1..Len(rows') :
                (i > Len(rows) \/ rows'[i] # rows[i]) =>
                    \E r \in 1..Len(requests') :
                        /\ Acting(r)
                        /\ requests'[r].method \in {"POST", "PUT"}
                        /\ requests'[r].user_id = rows'[i].keycloak_id]_vars

\* two identities have a row each, one changed its own, and the other's
\* row is as it was created
C29_Witness ==
    \E r \in 1..Len(requests), i \in 1..Len(rows) :
        /\ DoneUpdate(r)
        /\ requests[r].stored # requests[r].found
        /\ rows[i].keycloak_id # requests[r].user_id
        /\ rows[i].updated_at = rows[i].created_at

\* ------------------------------------ claims: errors and registration

\* the error texts the handlers of the identity-provider endpoints write
\* out as literals
FixedDetails ==
    {"Invalid credentials",
     "Keycloak client not initialized",
     "Keycloak client configuration error. Please check KEYCLOAK_SETUP.md for configuration instructions.",
     "Authentication service error",
     "Internal server error during login",
     "Keycloak admin client not initialized",
     "Internal server error during registration",
     "User not found",
     "Current password is incorrect",
     "Error changing password",
     "Internal server error during password change"}

SomeCallFailed == \E i \in 1..Len(calls) : calls[i].raised # None

\* C24: when a call to the identity provider fails in login, register or
\* change-password, the error message sent to the client is one of the
\* fixed texts and carries nothing of the text of the exception.
C24_FixedErrorText ==
    ("endpoint" \in DOMAIN response /\ SomeCallFailed
        /\ "detail" \in DOMAIN response.body) =>
            response.body.detail \in FixedDetails

\* C27: registration is all-or-nothing at the identity provider: when POST
\* /auth/register answers an error, the provider holds no account created
\* by that request.
C27_RegisterAllOrNothing ==
    (Answered("register") /\ response.status_code >= 400) =>
        accounts = response.before

\* ---------------------------------------- claims: roles of the session

\* C25: the roles placed in the session at login are only role names the
\* identity provider asserted in the introspection payload; no role is
\* granted on the basis of the username alone.
C25_RolesFromIdpOnly ==
    pc = "authenticated" =>
        \A i \in 1..Len(current_user.roles) :
            \E held \in HeldRoles : held[1] = current_user.roles[i]

HandlerInvoked == "invoked" \in DOMAIN guarded.answer

\* the guarded request came without identity / from the logged-in user
Anonymous == guarded.caller = <<>>

\* C26: a handler guarded by require_role("admin", RoleType.REALM) runs
\* only for a caller holding "admin" at realm scope: a caller whose only
\* "admin" is a client role gets 403, a caller without identity gets 401,
\* and the handler is not invoked for either.
C26_RealmAdminOnly ==
    guarded # <<>> =>
        /\ HandlerInvoked => (~Anonymous /\ <<"admin", REALM>> \in HeldRoles)
        /\ Anonymous => (~HandlerInvoked /\ guarded.answer.raise.status_code = 401)
        /\ (~Anonymous /\ <<"admin", REALM>> \notin HeldRoles
                /\ <<"admin", CLIENT>> \in HeldRoles) =>
              (~HandlerInvoked /\ guarded.answer.raise.status_code = 403)

\* --------------------------------------------- claims: token lifetime

\* the expires_in of the login answer that carries the issued token
ExpiresIn == Token(issued.token).expires_in

\* C30: the expires_in returned by POST /auth/login is the lifetime in
\* seconds of the token of the same answer, whatever
\* JWT_ACCESS_TOKEN_EXPIRE_MINUTES is set to: the token expires at issue
\* time + expires_in, is accepted before that instant and rejected after.
C30_ExpiresInIsLifetime ==
    (HasIssued /\ issued.by = "login") =>
        /\ issued.token.claims.exp = issued.at + ExpiresIn
        /\ (HasVerdict /\ verdict.token = issued.token) =>
              /\ verdict.at < issued.at + ExpiresIn => Accepted
              /\ verdict.at > issued.at + ExpiresIn => Rejected

====
